---- MODULE Spec2Model ----
\* Model of parseGCPLogsEntry
\* (src/component/loki/source/gcplog/internal/gcplogtarget/formatter.go).
\*
\* Go strings are byte sequences; they are modelled as sequences of byte
\* values (0..255), so that prefix tests, the label grammar, UTF-8 validity,
\* whitespace trimming and RFC3339 parsing are computed on the bytes.
EXTENDS Integers, Sequences, FiniteSets, TLC

\* ---------------------------------------------------------------- bounds
\* largest number of entries of resource.labels / labels in a sampled record
MaxMapSize == 2
\* largest number of labels the relabel engine returns in a sampled outcome
MaxProcessed == 2
\* largest number of labels in a sampled caller label set (other)
MaxOther == 1
\* largest number of labels in a sampled base label set (otherInternal)
MaxBase == 1

\* ---------------------------------------------------------------- strings
EmptyStr == <<>>

IsDigit(b) == b \in 48..57
IsLower(b) == b \in 97..122
IsUpper(b) == b \in 65..90

\* strings.HasPrefix(s, p)
HasPrefix(s, p) == Len(s) >= Len(p) /\ SubSeq(s, 1, Len(p)) = p

\* the literal "__" of line 88
InternalPrefix == <<95, 95>>

\* unicode.IsSpace restricted to the one-byte (ASCII) white space:
\* '\t' '\n' '\v' '\f' '\r' ' '
IsSpace(b) == b \in {9, 10, 11, 12, 13, 32}

\* strings.TrimSpace(s): s without its leading and trailing white space
TrimSpace(s) ==
    LET nonSpace == {i \in 1..Len(s) : ~IsSpace(s[i])}
        Min(S) == CHOOSE x \in S : \A y \in S : x <= y
        Max(S) == CHOOSE x \in S : \A y \in S : x >= y
    IN IF nonSpace = {} THEN EmptyStr
       ELSE SubSeq(s, Min(nonSpace), Max(nonSpace))

\* utf8.ValidString(s), from position i on: the leading byte fixes the
\* length of the sequence and the range of the second byte
IsCont(b) == b \in 128..191

RECURSIVE ValidUTF8From(_, _)
ValidUTF8From(s, i) ==
    IF i > Len(s) THEN TRUE
    ELSE LET b == s[i]
             has(n) == i + n - 1 <= Len(s)
             second(lo, hi) == s[i + 1] \in lo..hi
         IN CASE b \in 0..127 -> ValidUTF8From(s, i + 1)
              [] b \in 194..223 ->
                    has(2) /\ second(128, 191) /\ ValidUTF8From(s, i + 2)
              [] b = 224 ->
                    has(3) /\ second(160, 191) /\ IsCont(s[i + 2])
                    /\ ValidUTF8From(s, i + 3)
              [] b \in (225..236) \cup {238, 239} ->
                    has(3) /\ second(128, 191) /\ IsCont(s[i + 2])
                    /\ ValidUTF8From(s, i + 3)
              [] b = 237 ->
                    has(3) /\ second(128, 159) /\ IsCont(s[i + 2])
                    /\ ValidUTF8From(s, i + 3)
              [] b = 240 ->
                    has(4) /\ second(144, 191) /\ IsCont(s[i + 2])
                    /\ IsCont(s[i + 3]) /\ ValidUTF8From(s, i + 4)
              [] b \in 241..243 ->
                    has(4) /\ second(128, 191) /\ IsCont(s[i + 2])
                    /\ IsCont(s[i + 3]) /\ ValidUTF8From(s, i + 4)
              [] b = 244 ->
                    has(4) /\ second(128, 143) /\ IsCont(s[i + 2])
                    /\ IsCont(s[i + 3]) /\ ValidUTF8From(s, i + 4)
              [] OTHER -> FALSE

\* model.LabelValue(v).IsValid()
LabelValueIsValid(v) == ValidUTF8From(v, 1)

\* model.LabelName(n).IsValid(): non-empty, [a-zA-Z_][a-zA-Z0-9_]*
LabelNameIsValid(n) ==
    /\ Len(n) > 0
    /\ \A i \in 1..Len(n) :
          \/ IsLower(n[i])
          \/ IsUpper(n[i])
          \/ n[i] = 95
          \/ (IsDigit(n[i]) /\ i > 1)

\* convertToLokiCompatibleLabel(k): every byte outside [A-Za-z0-9_] becomes
\* '_' (the function is declared in another file of the package)
convertToLokiCompatibleLabel(k) ==
    [i \in 1..Len(k) |->
        IF IsLower(k[i]) \/ IsUpper(k[i]) \/ IsDigit(k[i]) \/ k[i] = 95
        THEN k[i] ELSE 95]

\* ---------------------------------------------------------------- time
\* A time.Time is the pair (days since 0001-01-01, second of the day) in UTC.
ZeroTime == [day |-> 0, sec |-> 0]

\* time.Time.IsZero()
IsZero(t) == t.day = 0 /\ t.sec = 0

IsLeap(y) == (y % 4 = 0) /\ ((y % 100 # 0) \/ (y % 400 = 0))

DaysIn(m, y) ==
    IF m = 2 THEN (IF IsLeap(y) THEN 29 ELSE 28)
    ELSE IF m \in {4, 6, 9, 11} THEN 30 ELSE 31

DaysBeforeYear(y) ==
    365 * (y - 1) + ((y - 1) \div 4) - ((y - 1) \div 100) + ((y - 1) \div 400)

RECURSIVE DaysBeforeMonth(_, _)
DaysBeforeMonth(m, y) ==
    IF m = 1 THEN 0 ELSE DaysBeforeMonth(m - 1, y) + DaysIn(m - 1, y)

Num2(s, i) == 10 * (s[i] - 48) + (s[i + 1] - 48)
Num4(s, i) == 100 * Num2(s, i) + Num2(s, i + 2)

\* the shape "2006-01-02T15:04:05Z07:00" (without fractional seconds)
RFC3339Shape(s) ==
    /\ Len(s) \in {20, 25}
    /\ \A i \in {1, 2, 3, 4, 6, 7, 9, 10, 12, 13, 15, 16, 18, 19} : IsDigit(s[i])
    /\ s[5] = 45 /\ s[8] = 45 /\ s[11] = 84 /\ s[14] = 58 /\ s[17] = 58
    /\ IF Len(s) = 20 THEN s[20] = 90
       ELSE /\ s[20] \in {43, 45}
            /\ \A i \in {21, 22, 24, 25} : IsDigit(s[i])
            /\ s[23] = 58

RFC3339InRange(s) ==
    /\ Num2(s, 6) \in 1..12
    /\ Num2(s, 9) \in 1..DaysIn(Num2(s, 6), Num4(s, 1))
    /\ Num2(s, 12) \in 0..23
    /\ Num2(s, 15) \in 0..59
    /\ Num2(s, 18) \in 0..59
    /\ Len(s) = 25 => (Num2(s, 21) <= 24 /\ Num2(s, 24) <= 60)

\* time.Parse(time.RFC3339, s): [ok, t]
ParseRFC3339(s) ==
    IF ~(RFC3339Shape(s) /\ RFC3339InRange(s))
    THEN [ok |-> FALSE, t |-> ZeroTime]
    ELSE LET y == Num4(s, 1)
             days == DaysBeforeYear(y) + DaysBeforeMonth(Num2(s, 6), y)
                     + Num2(s, 9) - 1
             off == IF Len(s) = 20 THEN 0
                    ELSE (IF s[20] = 43 THEN 1 ELSE -1)
                         * (3600 * Num2(s, 21) + 60 * Num2(s, 24))
             secs == 3600 * Num2(s, 12) + 60 * Num2(s, 15) + Num2(s, 18) - off
         IN [ok |-> TRUE,
             t |-> [day |-> days + (secs \div 86400), sec |-> secs % 86400]]

\* ---------------------------------------------------------------- labels
\* A label set (labels.Labels, labels.Builder, model.LabelSet) is a function
\* from label names to label values; names are unique in all three.
EmptyLabels == [n \in {} |-> EmptyStr]

Put(l, n, v) == [x \in DOMAIN l \cup {n} |-> IF x = n THEN v ELSE l[x]]

Del(l, n) == [x \in DOMAIN l \ {n} |-> l[x]]

\* labels.NewBuilder(base): a base label with an empty value counts as absent
NewBuilder(base) == [x \in {n \in DOMAIN base : base[n] # EmptyStr} |-> base[x]]

\* labels.Builder.Set(n, v): an empty value deletes the label
BuilderSet(l, n, v) == IF v = EmptyStr THEN Del(l, n) ELSE Put(l, n, v)

\* Merge in which the receiver's entries win
MergeReceiverWins(l, o) ==
    [x \in DOMAIN l \cup DOMAIN o |-> IF x \in DOMAIN l THEN l[x] ELSE o[x]]

\* model.LabelSet.Merge(other): other's entries overwrite the receiver's
Merge(l, o) == [x \in DOMAIN l \cup DOMAIN o |-> IF x \in DOMAIN o THEN o[x] ELSE l[x]]

\* the label names of lines 61-72
GcpLogname == <<95, 95, 103, 99, 112, 95, 108, 111, 103, 110, 97, 109, 101>>
GcpResourceType ==
    <<95, 95, 103, 99, 112, 95, 114, 101, 115, 111, 117, 114, 99, 101, 95,
      116, 121, 112, 101>>
GcpSeverity == <<95, 95, 103, 99, 112, 95, 115, 101, 118, 101, 114, 105, 116, 121>>
GcpResourceLabelsPrefix ==
    <<95, 95, 103, 99, 112, 95, 114, 101, 115, 111, 117, 114, 99, 101, 95,
      108, 97, 98, 101, 108, 115, 95>>
GcpLabelsPrefix == <<95, 95, 103, 99, 112, 95, 108, 97, 98, 101, 108, 115, 95>>

ResourceLabelName(k) == GcpResourceLabelsPrefix \o convertToLokiCompatibleLabel(k)
EntryLabelName(k) == GcpLabelsPrefix \o convertToLokiCompatibleLabel(k)

\* FinalLabels without the test of line 88
FinalLabelsKeepInternal(processed) ==
    [x \in {n \in DOMAIN processed :
              /\ LabelNameIsValid(n)
              /\ LabelValueIsValid(processed[n])} |-> processed[x]]

\* FinalLabels without the value test of line 92
FinalLabelsKeepInvalid(processed) ==
    [x \in {n \in DOMAIN processed :
              /\ ~HasPrefix(n, InternalPrefix)
              /\ LabelNameIsValid(n)} |-> processed[x]]

\* lines 85-96: the relabeled labels without the internal and the invalid ones
FinalLabels(processed) ==
    [x \in {n \in DOMAIN processed :
              /\ ~HasPrefix(n, InternalPrefix)
              /\ LabelNameIsValid(n)
              /\ LabelValueIsValid(processed[n])} |-> processed[x]]

\* ---------------------------------------------------------------- JSON input
\* The raw bytes are modelled by the JSON document they spell: either bytes
\* that are not JSON, or an object whose known members are absent, null, a
\* string, a number or an object of strings.  Members the struct does not
\* name are ignored by the decoder and are left out.
JAbsent == [t |-> "absent", s |-> EmptyStr, m |-> EmptyLabels]
JNull == [t |-> "null", s |-> EmptyStr, m |-> EmptyLabels]
JNum == [t |-> "num", s |-> EmptyStr, m |-> EmptyLabels]
JStr(s) == [t |-> "str", s |-> s, m |-> EmptyLabels]
JObj(m) == [t |-> "obj", s |-> EmptyStr, m |-> m]

\* decoding a member into a string field / a map[string]string field
StringFieldOK(v) == v.t \in {"absent", "null", "str"}
MapFieldOK(v) == v.t \in {"absent", "null", "obj"}

\* the zero GCPLogEntry (line 53)
ZeroEntry ==
    [LogName |-> EmptyStr, ResourceType |-> EmptyStr, ResourceLabels |-> EmptyLabels,
     Timestamp |-> EmptyStr, ReceiveTimestamp |-> EmptyStr, Severity |-> EmptyStr,
     Labels |-> EmptyLabels, TextPayload |-> EmptyStr]

\* Unmarshal that reads a member of the wrong type as the zero value
UnmarshalIgnoresMismatch(d) ==
    IF d.syntax # "json"
    THEN [ok |-> FALSE, ge |-> ZeroEntry]
    ELSE [ok |-> TRUE,
          ge |-> [LogName |-> d.logName.s,
                  ResourceType |-> d.resourceType.s,
                  ResourceLabels |-> d.resourceLabels.m,
                  Timestamp |-> d.timestamp.s,
                  ReceiveTimestamp |-> d.receiveTimestamp.s,
                  Severity |-> d.severity.s,
                  Labels |-> d.labels.m,
                  TextPayload |-> d.textPayload.s]]

\* json.Unmarshal(data, &ge): [ok, ge]
Unmarshal(d) ==
    IF \/ d.syntax # "json"
       \/ ~StringFieldOK(d.logName)
       \/ ~StringFieldOK(d.resourceType)
       \/ ~MapFieldOK(d.resourceLabels)
       \/ ~StringFieldOK(d.timestamp)
       \/ ~StringFieldOK(d.receiveTimestamp)
       \/ ~StringFieldOK(d.severity)
       \/ ~MapFieldOK(d.labels)
       \/ ~StringFieldOK(d.textPayload)
    THEN [ok |-> FALSE, ge |-> ZeroEntry]
    ELSE [ok |-> TRUE,
          ge |-> [LogName |-> d.logName.s,
                  ResourceType |-> d.resourceType.s,
                  ResourceLabels |-> d.resourceLabels.m,
                  Timestamp |-> d.timestamp.s,
                  ReceiveTimestamp |-> d.receiveTimestamp.s,
                  Severity |-> d.severity.s,
                  Labels |-> d.labels.m,
                  TextPayload |-> d.textPayload.s]]

\* a Go string value: either string(data) for a document, or a byte string
NoData ==
    [syntax |-> "none", logName |-> JAbsent, resourceType |-> JAbsent,
     resourceLabels |-> JAbsent, timestamp |-> JAbsent,
     receiveTimestamp |-> JAbsent, severity |-> JAbsent, labels |-> JAbsent,
     textPayload |-> JAbsent]
StringOfData(d) == [raw |-> d, text |-> EmptyStr]
StringOf(s) == [raw |-> NoData, text |-> s]

\* loki.Entry{} (lines 56, 112, 116)
EmptyEntry == [Labels |-> EmptyLabels, Timestamp |-> ZeroTime, Line |-> StringOf(EmptyStr)]

\* ---------------------------------------------------------------- inputs
\* all functions from at most max of the names to the values
Maps(names, values, max) ==
    UNION {[S -> values] : S \in {T \in SUBSET names : Cardinality(T) <= max}}

\* "2024-01-01T00:00:00Z", "2024-01-01T01:00:00+01:00" (the same instant),
\* "2023-06-15T12:30:45Z", "0001-01-01T00:00:00Z" (the zero instant),
\* "2024-02-30T00:00:00Z" (no such day), "yesterday"
TsNewYear == <<50, 48, 50, 52, 45, 48, 49, 45, 48, 49, 84, 48, 48, 58, 48, 48, 58, 48, 48, 90>>
TsNewYearOffset ==
    <<50, 48, 50, 52, 45, 48, 49, 45, 48, 49, 84, 48, 49, 58, 48, 48, 58, 48, 48,
      43, 48, 49, 58, 48, 48>>
TsJune == <<50, 48, 50, 51, 45, 48, 54, 45, 49, 53, 84, 49, 50, 58, 51, 48, 58, 52, 53, 90>>
TsZero == <<48, 48, 48, 49, 45, 48, 49, 45, 48, 49, 84, 48, 48, 58, 48, 48, 58, 48, 48, 90>>
TsNoSuchDay == <<50, 48, 50, 52, 45, 48, 50, 45, 51, 48, 84, 48, 48, 58, 48, 48, 58, 48, 48, 90>>
TsYesterday == <<121, 101, 115, 116, 101, 114, 100, 97, 121>>

\* "hello", " hi ", " \t"
Hello == <<104, 101, 108, 108, 111>>
PaddedHi == <<32, 104, 105, 32>>
Blank == <<32, 9>>

\* label values "v", "w", "c", "b" and the byte 0xff, which is not UTF-8
ValV == <<118>>
ValW == <<119>>
ValC == <<99>>
ValB == <<98>>
ValNotUTF8 == <<255>>

\* label names "job", "__tmp", "a-b", "_x", "__gcp_message_id"
NameJob == <<106, 111, 98>>
NameTmp == <<95, 95, 116, 109, 112>>
NameDash == <<97, 45, 98>>
NameUnderX == <<95, 120>>
NameMessageId == <<95, 95, 103, 99, 112, 95, 109, 101, 115, 115, 97, 103, 101, 95, 105, 100>>

\* map keys "a/b", "a_b" (both sanitize to "a_b"), "zone", "a.b"
KeySlash == <<97, 47, 98>>
KeyUnder == <<97, 95, 98>>
KeyZone == <<122, 111, 110, 101>>
KeyDot == <<97, 46, 98>>

Doc(ln, rt, rl, t, rct, sv, el, tp) ==
    [syntax |-> "json", logName |-> ln, resourceType |-> rt,
     resourceLabels |-> rl, timestamp |-> t, receiveTimestamp |-> rct,
     severity |-> sv, labels |-> el, textPayload |-> tp]

\* bytes that are not JSON
Malformed(d) == [d EXCEPT !.syntax = "malformed"]

\* the caller's label sets (other) and base label sets (otherInternal)
OtherSets == Maps({NameJob, NameTmp, NameDash}, {ValC, ValNotUTF8}, MaxOther)
BaseSets == Maps({NameMessageId, GcpSeverity, NameJob}, {ValB}, MaxBase)

\* records that exercise the label assembler
AssemblerDocs ==
    {Doc(ln, rt, rl, JAbsent, JStr(TsNewYear), sv, el, JAbsent) :
        ln \in {JAbsent, JStr(ValV)},
        rt \in {JStr(EmptyStr), JStr(ValW)},
        rl \in {JAbsent} \cup
               {JObj(m) : m \in Maps({KeySlash, KeyUnder, KeyZone},
                                     {EmptyStr, ValV, ValW}, MaxMapSize)},
        sv \in {JNull, JStr(ValC), JNum},
        el \in {JObj(m) : m \in Maps({KeyDot}, {EmptyStr, ValV}, MaxMapSize)}}

\* one record for the runs that exercise the relabel engine and the finalizer
FinalizerDoc ==
    Doc(JStr(ValV), JStr(ValW), JObj([k \in {KeyZone} |-> ValV]), JAbsent,
        JStr(TsNewYear), JStr(ValC), JAbsent, JStr(Hello))

\* records that exercise the decoder and the timestamp/line resolver
ResolverDocs ==
    LET docs == {Doc(JStr(ValV), JStr(ValW), JAbsent, t, rt, sv, JAbsent, tp) :
                    t \in {JAbsent, JStr(EmptyStr), JStr(TsJune), JStr(TsZero),
                           JStr(TsNoSuchDay), JStr(TsYesterday)},
                    rt \in {JAbsent, JStr(TsNewYear), JStr(TsNewYearOffset),
                            JStr(TsZero), JStr(TsYesterday)},
                    sv \in {JStr(ValC), JNum},
                    tp \in {JAbsent, JStr(Blank), JStr(Hello), JStr(PaddedHi)}}
    IN docs \cup {Malformed(d) : d \in docs}

\* the values time.Now() returns in the sampled runs
Clock == {[day |-> 739000, sec |-> 1], [day |-> 739001, sec |-> 86399]}

\* what relabel.Process returns for a non-empty rule list: the labels and the
\* keep flag; a dropped record comes with no labels.  The rules are opaque,
\* so every label list over the sampled names and values is an outcome, and so
\* is the unchanged input.
ProcessOutcomes(lset) ==
    {[labels |-> EmptyLabels, keep |-> FALSE]} \cup
    {[labels |-> m, keep |-> TRUE] :
        m \in {lset} \cup Maps({NameJob, NameTmp, NameDash, NameUnderX},
                               {ValV, ValNotUTF8}, MaxProcessed)}

\* ---------------------------------------------------------------- state
VARIABLES
    data, other, otherInternal, useIncomingTimestamp, useFullLine,
    relabelConfig,      \* the arguments
    pc,                 \* position in the function body
    ge,                 \* the decoded record
    lbs,                \* the label builder
    todo,               \* keys of the map being ranged over, not yet visited
    processed,          \* the relabeled labels
    keep,               \* second result of relabel.Process (discarded, line 79)
    labels,             \* the final label set
    ts, line,           \* locals of lines 101-102
    ret                 \* the returned (loki.Entry, error)

args == <<data, other, otherInternal, useIncomingTimestamp, useFullLine, relabelConfig>>
vars == <<data, other, otherInternal, useIncomingTimestamp, useFullLine,
          relabelConfig, pc, ge, lbs, todo, processed, keep, labels, ts, line, ret>>

InitLocals ==
    /\ pc = "unmarshal"
    /\ ge = ZeroEntry
    /\ lbs = EmptyLabels
    /\ todo = {}
    /\ processed = EmptyLabels
    /\ keep = TRUE
    /\ labels = EmptyLabels
    /\ ts = ZeroTime
    /\ line = StringOf(EmptyStr)
    /\ ret = [entry |-> EmptyEntry, err |-> "nil"]

InitAssembler ==
    /\ data \in AssemblerDocs
    /\ otherInternal \in BaseSets
    /\ other = EmptyLabels
    /\ relabelConfig = <<>>
    /\ useIncomingTimestamp = TRUE
    /\ useFullLine = FALSE

InitFinalizer ==
    /\ data = FinalizerDoc
    /\ otherInternal \in BaseSets
    /\ other \in OtherSets
    /\ relabelConfig \in {<<>>, <<"rule">>}
    /\ useIncomingTimestamp = FALSE
    /\ useFullLine = FALSE

InitResolver ==
    /\ data \in ResolverDocs
    /\ otherInternal = EmptyLabels
    /\ other = [n \in {NameJob} |-> ValC]
    /\ relabelConfig = <<>>
    /\ useIncomingTimestamp \in BOOLEAN
    /\ useFullLine \in BOOLEAN

Init == InitLocals /\ (InitAssembler \/ InitFinalizer \/ InitResolver)

\* ---------------------------------------------------------------- steps
\* where the range loops of lines 66-73 continue
AfterMandatory(g) ==
    IF DOMAIN g.ResourceLabels # {} THEN "resource"
    ELSE IF DOMAIN g.Labels # {} THEN "labels" ELSE "relabel"

\* lines 53-57
DoUnmarshal ==
    /\ pc = "unmarshal"
    /\ LET r == Unmarshal(data)
       IN IF r.ok
          THEN /\ ge' = r.ge
               /\ pc' = "mandatory"
               /\ ret' = ret
          ELSE /\ ge' = ge
               /\ pc' = "done"
               /\ ret' = [entry |-> EmptyEntry, err |-> "decode"]
    /\ UNCHANGED <<args, lbs, todo, processed, keep, labels, ts, line>>

\* MandatoryLabels in which a base label of the same name survives
MandatoryLabelsBaseWins(base, g) ==
    Merge(BuilderSet(BuilderSet(BuilderSet(EmptyLabels,
        GcpLogname, g.LogName), GcpResourceType, g.ResourceType),
        GcpSeverity, g.Severity), NewBuilder(base))

\* lines 60-63
MandatoryLabels(base, g) ==
    BuilderSet(BuilderSet(BuilderSet(NewBuilder(base),
        GcpLogname, g.LogName), GcpResourceType, g.ResourceType),
        GcpSeverity, g.Severity)

SetMandatory ==
    /\ pc = "mandatory"
    /\ lbs' = MandatoryLabels(otherInternal, ge)
    /\ pc' = AfterMandatory(ge)
    /\ todo' = IF DOMAIN ge.ResourceLabels # {} THEN DOMAIN ge.ResourceLabels
               ELSE DOMAIN ge.Labels
    /\ UNCHANGED <<args, ge, processed, keep, labels, ts, line, ret>>

\* lines 66-68, one iteration; Go ranges over a map in any order
RangeResourceLabels ==
    /\ pc = "resource"
    /\ \E k \in todo :
          /\ lbs' = BuilderSet(lbs, ResourceLabelName(k), ge.ResourceLabels[k])
          /\ IF todo = {k}
             THEN /\ todo' = DOMAIN ge.Labels
                  /\ pc' = IF DOMAIN ge.Labels # {} THEN "labels" ELSE "relabel"
             ELSE /\ todo' = todo \ {k}
                  /\ pc' = pc
    /\ UNCHANGED <<args, ge, processed, keep, labels, ts, line, ret>>

\* lines 71-73, one iteration
RangeLabels ==
    /\ pc = "labels"
    /\ \E k \in todo :
          /\ lbs' = BuilderSet(lbs, EntryLabelName(k), ge.Labels[k])
          /\ todo' = todo \ {k}
          /\ pc' = IF todo = {k} THEN "relabel" ELSE pc
    /\ UNCHANGED <<args, ge, processed, keep, labels, ts, line, ret>>

\* lines 75-82
RelabelResults(lset, cfg) ==
    IF Len(cfg) > 0 THEN ProcessOutcomes(lset)
    ELSE {[labels |-> lset, keep |-> TRUE]}

Relabel ==
    /\ pc = "relabel"
    /\ \E r \in RelabelResults(lbs, relabelConfig) :
          /\ processed' = r.labels
          /\ keep' = r.keep
    /\ pc' = "finalize"
    /\ UNCHANGED <<args, ge, lbs, todo, labels, ts, line, ret>>

\* lines 85-99
Finalize ==
    /\ pc = "finalize"
    /\ labels' = Merge(FinalLabels(processed), other)
    /\ pc' = "clock"
    /\ UNCHANGED <<args, ge, lbs, todo, processed, keep, ts, line, ret>>

\* lines 101-102
ReadClock ==
    /\ pc = "clock"
    /\ \E now \in Clock : ts' = now
    /\ line' = StringOfData(data)
    /\ pc' = "resolve"
    /\ UNCHANGED <<args, ge, lbs, todo, processed, keep, labels, ret>>

\* IncomingTimestamp that falls back whenever receiveTimestamp is present
IncomingTimestampReceiveFirst(g) ==
    IF g.ReceiveTimestamp = EmptyStr THEN g.Timestamp ELSE g.ReceiveTimestamp

\* lines 105-108: the timestamp string that is parsed
IncomingTimestamp(g) == IF g.Timestamp = EmptyStr THEN g.ReceiveTimestamp ELSE g.Timestamp

\* ResolveTimestamp that adopts a present timestamp whatever the flag is
ResolveTimestampAlwaysAdopts(useIncoming, g, t) ==
    IF useIncoming \/ g.Timestamp # EmptyStr
    THEN LET p == ParseRFC3339(IncomingTimestamp(g))
         IN IF ~p.ok THEN [err |-> "invalid timestamp format", ts |-> p.t]
            ELSE IF IsZero(p.t)
                 THEN [err |-> "no timestamp found in the log entry", ts |-> p.t]
                 ELSE [err |-> "nil", ts |-> p.t]
    ELSE [err |-> "nil", ts |-> t]

\* lines 104-118: [err, ts]
ResolveTimestamp(useIncoming, g, t) ==
    IF useIncoming
    THEN LET p == ParseRFC3339(IncomingTimestamp(g))
         IN IF ~p.ok THEN [err |-> "invalid timestamp format", ts |-> p.t]
            ELSE IF IsZero(p.t)
                 THEN [err |-> "no timestamp found in the log entry", ts |-> p.t]
                 ELSE [err |-> "nil", ts |-> p.t]
    ELSE [err |-> "nil", ts |-> t]

\* ResolveLine that sends the trimmed payload
ResolveLineTrimmed(useFull, g, l) ==
    IF ~useFull /\ TrimSpace(g.TextPayload) # EmptyStr
    THEN StringOf(TrimSpace(g.TextPayload)) ELSE l

\* lines 120-123
ResolveLine(useFull, g, l) ==
    IF ~useFull /\ TrimSpace(g.TextPayload) # EmptyStr
    THEN StringOf(g.TextPayload) ELSE l

\* lines 104-131
Resolve ==
    /\ pc = "resolve"
    /\ LET r == ResolveTimestamp(useIncomingTimestamp, ge, ts)
       IN /\ ts' = r.ts
          /\ IF r.err # "nil"
             THEN /\ line' = line
                  /\ ret' = [entry |-> EmptyEntry, err |-> r.err]
             ELSE /\ line' = ResolveLine(useFullLine, ge, line)
                  /\ ret' = [entry |-> [Labels |-> labels, Timestamp |-> r.ts,
                                        Line |-> line'],
                             err |-> "nil"]
    /\ pc' = "done"
    /\ UNCHANGED <<args, ge, lbs, todo, processed, keep, labels>>

Next ==
    \/ DoUnmarshal
    \/ SetMandatory
    \/ RangeResourceLabels
    \/ RangeLabels
    \/ Relabel
    \/ Finalize
    \/ ReadClock
    \/ Resolve

Spec == Init /\ [][Next]_vars

\* ---------------------------------------------------------------- properties
Done == pc = "done"
Succeeded == pc = "done" /\ ret.err = "nil"
Decoded == pc = "done" /\ ret.err # "decode"
Relabeled == pc \in {"finalize", "clock", "resolve", "done"} /\ Len(relabelConfig) > 0
ErrorKinds == {"decode", "invalid timestamp format", "no timestamp found in the log entry"}
IsInternal(n) == Len(n) >= 2 /\ n[1] = 95 /\ n[2] = 95

\* C1: when the relabel rules signal "drop" for the record, the call yields
\* no output record and a drop signal that is neither success nor one of the
\* decode/timestamp errors, and neither the label finalizer nor the
\* timestamp/line resolver runs for the record.
C1_DropIsSignalled ==
    (Relabeled /\ ~keep) =>
        /\ pc \notin {"clock", "resolve"}
        /\ pc = "done" =>
              /\ ret.entry = EmptyEntry
              /\ ret.err \notin ErrorKinds \cup {"nil"}

\* C2 as stated: after a successful call no returned label name starts
\* with "__", whatever other is.
C2_NoInternalName ==
    Succeeded => \A n \in DOMAIN ret.entry.Labels : ~IsInternal(n)

\* C2 amended: after a successful call every returned label whose name starts
\* with "__" is a label of the caller-supplied set (other), with the caller's
\* value; the base labels and the relabel rules never contribute one.
C2_InternalOnlyFromOther ==
    Succeeded =>
        \A n \in DOMAIN ret.entry.Labels :
            IsInternal(n) => (n \in DOMAIN other /\ ret.entry.Labels[n] = other[n])

C2_Witness ==
    /\ Succeeded
    /\ Len(relabelConfig) > 0
    /\ NameTmp \in DOMAIN processed
    /\ NameJob \in DOMAIN processed
    /\ NameTmp \notin DOMAIN ret.entry.Labels
    /\ NameJob \in DOMAIN ret.entry.Labels

\* C3 as stated: after a successful call every returned label has a valid
\* name and a valid value, those of the caller-supplied set included.
C3_AllValid ==
    Succeeded =>
        \A n \in DOMAIN ret.entry.Labels :
            LabelNameIsValid(n) /\ LabelValueIsValid(ret.entry.Labels[n])

\* C3 amended: after a successful call every returned label that is not a
\* label of the caller-supplied set has a valid name and a valid value; a
\* relabeled label that fails the grammar is left out and causes no error
\* (a decoded record fails only on its timestamp, and only when the incoming
\* timestamp is adopted).
C3_PipelineLabelsValid ==
    /\ Succeeded =>
          \A n \in DOMAIN ret.entry.Labels \ DOMAIN other :
              LabelNameIsValid(n) /\ LabelValueIsValid(ret.entry.Labels[n])
    /\ (Decoded /\ ~useIncomingTimestamp) => ret.err = "nil"

C3_Witness ==
    /\ Succeeded
    /\ Len(relabelConfig) > 0
    /\ NameDash \in DOMAIN processed
    /\ NameDash \notin DOMAIN ret.entry.Labels
    /\ NameJob \in DOMAIN processed
    /\ processed[NameJob] = ValNotUTF8
    /\ NameJob \notin DOMAIN ret.entry.Labels

\* C4: after a successful call the returned label set is the overlay of the
\* caller-supplied set on the finalized pipeline labels: every caller key is
\* present with the caller's value, every finalized pipeline key not in the
\* caller set keeps its pipeline value, and there is no other key.
C4_Overlay ==
    Succeeded =>
        LET out == ret.entry.Labels
            pipeline == {n \in DOMAIN processed :
                            /\ ~IsInternal(n)
                            /\ LabelNameIsValid(n)
                            /\ LabelValueIsValid(processed[n])}
        IN /\ \A n \in DOMAIN other : n \in DOMAIN out /\ out[n] = other[n]
           /\ \A n \in pipeline \ DOMAIN other :
                 n \in DOMAIN out /\ out[n] = processed[n]
           /\ DOMAIN out = DOMAIN other \cup pipeline

C4_Witness ==
    /\ Succeeded
    /\ NameJob \in DOMAIN other
    /\ NameJob \in DOMAIN processed
    /\ other[NameJob] = ValC
    /\ processed[NameJob] = ValV
    /\ NameUnderX \in DOMAIN processed
    /\ ret.entry.Labels = [n \in {NameJob, NameUnderX} |->
                              IF n = NameJob THEN ValC ELSE ValV]

\* C5: with adopt-incoming-timestamp true and both timestamp and
\* receiveTimestamp empty, the call fails with the "no timestamp found" error
\* kind, not the timestamp parse error, and yields no record.
C5_MissingTimestampError ==
    (Decoded /\ useIncomingTimestamp
        /\ ge.Timestamp = EmptyStr /\ ge.ReceiveTimestamp = EmptyStr) =>
        /\ ret.err = "no timestamp found in the log entry"
        /\ ret.entry = EmptyEntry

\* C6: with adopt-incoming-timestamp true, a successful call returns the
\* RFC3339 parse of timestamp if that field is non-empty and of
\* receiveTimestamp only if timestamp is empty, never the zero instant; a
\* non-empty timestamp that does not parse fails the call, also when
\* receiveTimestamp parses.
C6_AdoptedTimestamp ==
    (Decoded /\ useIncomingTimestamp) =>
        LET chosen == IF ge.Timestamp # EmptyStr THEN ge.Timestamp
                      ELSE ge.ReceiveTimestamp
        IN /\ ret.err = "nil" =>
                 /\ ParseRFC3339(chosen).ok
                 /\ ret.entry.Timestamp = ParseRFC3339(chosen).t
                 /\ ret.entry.Timestamp # ZeroTime
           /\ (ge.Timestamp # EmptyStr /\ ~ParseRFC3339(ge.Timestamp).ok) =>
                 ret.err # "nil"

C6_Witness ==
    /\ Succeeded
    /\ useIncomingTimestamp
    /\ ge.Timestamp = EmptyStr
    /\ ge.ReceiveTimestamp = TsNewYearOffset
    /\ ret.entry.Timestamp = ParseRFC3339(TsNewYear).t
    /\ ret.entry.Timestamp = [day |-> 738885, sec |-> 0]

\* C7: with adopt-incoming-timestamp false, the step that resolves the
\* timestamp succeeds and returns the wall-clock time read at line 101,
\* whatever the record's timestamp and receiveTimestamp are.
C7_WallClock ==
    [][(pc = "resolve" /\ ~useIncomingTimestamp) =>
          /\ ret'.err = "nil"
          /\ ret'.entry.Timestamp = ts
          /\ ts \in Clock]_vars

C7_Witness ==
    /\ Succeeded
    /\ ~useIncomingTimestamp
    /\ ge.Timestamp = TsYesterday
    /\ ge.ReceiveTimestamp = TsZero
    /\ ret.entry.Timestamp \in Clock

\* C8: after a successful call the line is textPayload, untrimmed, exactly
\* when use-full-line is false and textPayload holds a byte that is not white
\* space; in every other case it is the raw input as text.
C8_Line ==
    Succeeded =>
        LET payload == ge.TextPayload
            preferred == /\ ~useFullLine
                         /\ \E i \in 1..Len(payload) : ~IsSpace(payload[i])
        IN /\ (ret.entry.Line = StringOf(payload)) <=> preferred
           /\ ~preferred => ret.entry.Line = StringOfData(data)

C8_Witness ==
    /\ Succeeded
    /\ ~useFullLine
    /\ ge.TextPayload = PaddedHi
    /\ ret.entry.Line = StringOf(PaddedHi)

\* C9: every failing call returns its error with the empty record, and a
\* record that is not JSON or has a known member of the wrong type fails with
\* the decode error whatever the two flags and its timestamps are.
C9_FailureIsEmpty ==
    Done =>
        /\ ret.err # "nil" => (ret.err \in ErrorKinds /\ ret.entry = EmptyEntry)
        /\ (\/ data.syntax # "json"
            \/ \E f \in {"logName", "resourceType", "timestamp",
                         "receiveTimestamp", "severity", "textPayload"} :
                  data[f].t \in {"num", "obj"}
            \/ \E f \in {"resourceLabels", "labels"} :
                  data[f].t \in {"num", "str"})
           => ret.err = "decode"

C9_Witness ==
    /\ Done
    /\ data.syntax = "json"
    /\ data.severity = JNum
    /\ data.timestamp = JStr(TsYesterday)
    /\ useIncomingTimestamp
    /\ ret = [entry |-> EmptyEntry, err |-> "decode"]

Carries(l, n, v) == IF v = EmptyStr THEN n \notin DOMAIN l ELSE (n \in DOMAIN l /\ l[n] = v)

\* the label n written from the entries of m whose key has the name n carries
\* the value of one of them, and is absent only if one of them is empty
CarriesOneOf(l, n, m, Name(_)) ==
    LET same == {j \in DOMAIN m : Name(j) = n}
    IN IF n \in DOMAIN l
       THEN l[n] # EmptyStr /\ \E j \in same : m[j] = l[n]
       ELSE \E j \in same : m[j] = EmptyStr

====
